---- MODULE Spec2Model ----
(***************************************************************************)
(* Model of tap_hubspot_beta/client_base.py: the request loop of           *)
(* hubspotStream.request_records with the retry decorator of               *)
(* request_decorator (backoff.on_exception), validate_response, the        *)
(* paginator of hubspotStreamSchema, and finalize_state_progress_markers.  *)
(*                                                                         *)
(* Python values: a dict is a function whose DOMAIN is the set of keys     *)
(* present; an absent integer value (dict.get -> None) is Absent; a page   *)
(* token is a record with kind "none" for Python's None.                   *)
(***************************************************************************)
EXTENDS Integers, Sequences, FiniteSets, TLC

\* ---------------------------------------------------------------- bounds
\* pages one invocation of request_records may request in the model
MaxPages == 3
\* largest offset / vid-offset value a response carries
MaxOffset == 2
\* largest number of rows parse_response finds in one page
MaxRows == 2
\* largest number of field objects the metadata endpoint answers with
MaxFields == 1

\* ------------------------------------------------------ program constants
page_size == 100
backoff_max_tries == 8
expo_factor == 3
expo_base == 2

\* --------------------------------------------------------------- values
Absent == -1

\* Python truthiness of an optional integer (None and 0 are falsy)
Truthy(x) == x # Absent /\ x # 0

NoToken == [kind |-> "none", val |-> 0]

\* HTTP statuses the remote API answers with in the model
Statuses == {104, 200, 204, 301, 400, 401, 403, 404, 429, 499, 500, 503, 599}

\* exceptions requests_session.send raises instead of answering
TransportErrors == {"ReadTimeout", "ConnectionError", "ProtocolError"}

\* an exception of no class the decorator names (e.g. from the authenticator)
OtherErrors == {"OtherError"}

NoBody == [has_more |-> "absent", offset |-> Absent, vid_offset |-> Absent, rows |-> 0]

Bodies ==
  [has_more : {"true", "false", "absent"},
   offset : {Absent} \cup 0..MaxOffset,
   vid_offset : {Absent} \cup 0..MaxOffset,
   rows : 0..MaxRows]

NoResponse == [status |-> 0, body |-> NoBody]

EmptyDict == <<>>

\* Python's None where a dict is expected
PyNone == [None |-> TRUE]

VARIABLES
  op,              \* what the stream is doing: request_records or schema
  pc,              \* position in request_records or in schema
  next_page_token, \* request_records: next_page_token
  previous_token,  \* request_records: previous_token
  finished,        \* request_records: finished
  prepared,        \* the url params of the prepared request
  resp,            \* the response of the last attempt
  yield_idx,       \* rows of the current page already yielded
  page_no,         \* requests prepared by this invocation
  tries,           \* backoff: tries of the current decorated call
  wait_n,          \* backoff.expo: n of the wait generator
  wait_value,      \* backoff: value the wait generator gave last
  seconds,         \* backoff: seconds slept before the next attempt
  last_status,     \* status of the response validate_response saw last
  validation,      \* what validate_response did with the last response
  error,           \* the exception that ended the invocation
  base_properties, \* the class attribute base_properties
  fields,          \* schema: the field objects of the metadata response
  schema,          \* per stream instance: its cached schema, or PyNone
  inst,            \* the stream instance whose schema is asked for
  declared         \* base_properties as the class body declares it

reqvars ==
  <<op, pc, next_page_token, previous_token, finished, prepared, resp, yield_idx,
    page_no, tries, wait_n, wait_value, seconds, last_status, validation, error,
    base_properties, fields, schema, inst, declared>>

VARIABLES
  tap_state,   \* the tap's state dict, shared by every stream (or PyNone)
  state_arg,   \* the dict the caller passes as `state` (or PyNone)
  state_in,    \* that dict as it was when the first call began
  partitions,  \* per stream: the declared contexts and state_partitioning_keys
  stack,       \* the active calls of finalize_state_progress_markers
  fin_error,   \* the exception that ended the top-level call
  calls,       \* top-level calls that returned
  writing,     \* streams that reached their own bookmark in this call
  returned,    \* streams whose call returned in this call
  snap_tap,    \* tap_state as the first top-level call left it
  snap_arg     \* state_arg as the first top-level call left it

finvars ==
  <<tap_state, state_arg, state_in, partitions, stack, fin_error, calls, writing,
    returned, snap_tap, snap_arg>>

vars == <<reqvars, finvars>>

\* ------------------------------------------------------- validate_response
validate_response_no429(status) ==
  IF (500 <= status /\ status < 600) \/ status \in {401, 104}
  THEN "RetriableAPIError"
  ELSE IF 400 <= status /\ status < 500 THEN "FatalAPIError" ELSE "ok"

validate_response(status) ==
  IF (500 <= status /\ status < 600) \/ status \in {429, 401, 104}
  THEN "RetriableAPIError"
  ELSE IF 400 <= status /\ status < 500 THEN "FatalAPIError" ELSE "ok"

\* ------------------------------------------------------ request_decorator
\* the exception classes backoff.on_exception retries on
RetriedExceptions_all ==
  {"RetriableAPIError", "FatalAPIError", "ReadTimeout", "ConnectionError", "ProtocolError"}

RetriedExceptions ==
  {"RetriableAPIError", "ReadTimeout", "ConnectionError", "ProtocolError"}

max_tries_one_more == backoff_max_tries + 1

max_tries == backoff_max_tries

\* backoff.expo(factor=3): the n-th value is factor * base ** n
expo_base3(n) == expo_factor * 3 ^ n

backoff_wait_generator(n) == expo_factor * expo_base ^ n

\* a jitter that adds to the value instead of scaling it down
additive_jitter(value) == value..(value + 1)

\* backoff.full_jitter, the default jitter of on_exception: uniform in [0, value]
full_jitter(value) == 0..value

\* --------------------------------------------------------------- paginator
get_next_page_token_ignore_has_more(body) ==
  IF Truthy(body.offset) THEN [kind |-> "offset", val |-> body.offset]
  ELSE IF Truthy(body.vid_offset) THEN [kind |-> "vidOffset", val |-> body.vid_offset]
  ELSE NoToken

\* the paginator, were the vid-offset never looked at
get_next_page_token_offset_only(body) ==
  IF body.has_more = "true" /\ Truthy(body.offset)
  THEN [kind |-> "offset", val |-> body.offset]
  ELSE NoToken

get_next_page_token(body) ==
  IF body.has_more = "true"
  THEN IF Truthy(body.offset) THEN [kind |-> "offset", val |-> body.offset]
       ELSE IF Truthy(body.vid_offset) THEN [kind |-> "vidOffset", val |-> body.vid_offset]
       ELSE NoToken
  ELSE NoToken

\* the params, were the token's value sent under both field names
get_url_params_both(token) ==
  [count |-> page_size,
   offset |-> IF token = NoToken THEN Absent ELSE token.val,
   vidOffset |-> IF token = NoToken THEN Absent ELSE token.val]

\* params of get_url_params: count, then the token's field if there is a token
get_url_params(token) ==
  [count |-> page_size,
   offset |-> IF token.kind = "offset" THEN token.val ELSE Absent,
   vidOffset |-> IF token.kind = "vidOffset" THEN token.val ELSE Absent]

NoParams == [count |-> Absent, offset |-> Absent, vidOffset |-> Absent]

\* `next_page_token and next_page_token == previous_token`
loop_detected_never(next, prev) == FALSE

loop_detected(next, prev) == next # NoToken /\ next = prev

\* ------------------------------------------------------------------ schema
FieldNames == {"a", "b"}

\* the `type` of a field object; "absent" when the object has none
FieldTypes ==
  {"string", "enumeration", "phone_number", "date", "json", "object_coordinates",
   "number", "datetime", "bool", "currency", "absent"}

\* a field object of the metadata response; deleted may be missing
FieldObjects == [name : FieldNames, type : FieldTypes, deleted : {"true", "false", "absent"}]

RECURSIVE SeqsUpTo(_, _)
SeqsUpTo(S, n) ==
  IF n = 0 THEN {<<>>}
  ELSE SeqsUpTo(S, n - 1)
         \cup {Append(q, x) : q \in {r \in SeqsUpTo(S, n - 1) : Len(r) = n - 1}, x \in S}

FieldLists == SeqsUpTo(FieldObjects, MaxFields)

\* lines 134-147
extract_type(field) ==
  IF field.type \in {"string", "enumeration", "phone_number", "date", "json",
                     "object_coordinates"}
  THEN "StringType"
  ELSE IF field.type = "number" THEN "StringType"
  ELSE IF field.type = "datetime" THEN "DateTimeType"
  ELSE IF field.type = "bool" THEN "BooleanType"
  ELSE "StringType"

\* the loop of lines 163-166, were deleted fields not skipped
RECURSIVE discovered_with_deleted(_)
discovered_with_deleted(fs) ==
  IF fs = <<>> THEN <<>>
  ELSE <<[name |-> Head(fs).name, type |-> extract_type(Head(fs))]>>
         \o discovered_with_deleted(Tail(fs))

\* lines 163-166: the properties appended for the field objects not deleted
RECURSIVE discovered(_)
discovered(fs) ==
  IF fs = <<>> THEN <<>>
  ELSE LET rest == discovered(Tail(fs))
       IN IF Head(fs).deleted # "true"
          THEN <<[name |-> Head(fs).name, type |-> extract_type(Head(fs))]>> \o rest
          ELSE rest

\* line 168: PropertiesList(*properties).to_dict(): a property named again
\* replaces the one before it
to_dict(props) ==
  [n \in {props[i].name : i \in 1..Len(props)} |->
     props[CHOOSE i \in 1..Len(props) :
             /\ props[i].name = n
             /\ \A j \in (i + 1)..Len(props) : props[j].name # n].type]

BaseLists == {<<>>, <<[name |-> "id", type |-> "StringType"]>>}

\* two instances of one stream class: they share the class attribute
Instances == {"first", "second"}

NoSchemas == [i \in Instances |-> PyNone]

\* ---------------------------------------------------------- request_records
InitReq ==
  /\ \/ op = "records" /\ pc = "prepare" /\ base_properties = <<>>
     \/ op = "schema" /\ pc = "schema" /\ base_properties \in BaseLists
  /\ fields = <<>>
  /\ schema = NoSchemas
  /\ inst = "first"
  /\ declared = base_properties
  /\ tap_state = <<>>
  /\ state_arg = <<>>
  /\ state_in = <<>>
  /\ partitions = <<>>
  /\ stack = <<>>
  /\ fin_error = "none"
  /\ calls = 0
  /\ writing = {}
  /\ returned = {}
  /\ snap_tap = <<>>
  /\ snap_arg = <<>>
  /\ next_page_token = NoToken
  /\ previous_token = NoToken
  /\ finished = FALSE
  /\ prepared = NoParams
  /\ resp = NoResponse
  /\ yield_idx = 0
  /\ page_no = 0
  /\ tries = 0
  /\ wait_n = 0
  /\ wait_value = 0
  /\ seconds = 0
  /\ last_status = 0
  /\ validation = "none"
  /\ error = "none"

\* lines 67-72: prepare_request, then the decorated call starts
Prepare ==
  /\ pc = "prepare"
  /\ ~finished
  /\ page_no < MaxPages
  /\ prepared' = get_url_params(next_page_token)
  /\ page_no' = page_no + 1
  /\ tries' = 0
  /\ wait_n' = 0
  /\ pc' = "send"
  /\ resp' = NoResponse
  /\ wait_value' = 0
  /\ seconds' = 0
  /\ last_status' = 0
  /\ validation' = "none"
  /\ UNCHANGED <<next_page_token, previous_token, finished, yield_idx, error>>
  /\ UNCHANGED finvars
  /\ UNCHANGED <<op, base_properties, fields, schema, inst, declared>>

\* what backoff's retry loop does with exception e of attempt number t
AfterException(e, t) ==
  IF e \in RetriedExceptions /\ t # max_tries
  THEN /\ wait_value' = backoff_wait_generator(wait_n)
       /\ wait_n' = wait_n + 1
       /\ seconds' \in full_jitter(wait_value')
       /\ pc' = "sleep"
       /\ error' = error
  ELSE /\ pc' = "raised"
       /\ error' = e
       /\ UNCHANGED <<wait_n, wait_value, seconds>>

\* one attempt of the decorated _request (lines 30-51): send raises
SendRaises ==
  /\ pc = "send"
  /\ \E e \in TransportErrors \cup OtherErrors :
       /\ tries' = tries + 1
       /\ last_status' = 0
       /\ validation' = "none"
       /\ AfterException(e, tries')
  /\ UNCHANGED <<next_page_token, previous_token, finished, prepared, resp,
                 yield_idx, page_no>>
  /\ UNCHANGED finvars
  /\ UNCHANGED <<op, base_properties, fields, schema, inst, declared>>

\* one attempt of the decorated _request: a response, which validate_response rejects
SendRejected ==
  /\ pc = "send"
  /\ \E s \in Statuses :
       /\ validate_response(s) # "ok"
       /\ tries' = tries + 1
       /\ last_status' = s
       /\ validation' = validate_response(s)
       /\ AfterException(validation', tries')
  /\ UNCHANGED <<next_page_token, previous_token, finished, prepared, resp,
                 yield_idx, page_no>>
  /\ UNCHANGED finvars
  /\ UNCHANGED <<op, base_properties, fields, schema, inst, declared>>

\* one attempt of the decorated _request: a response, which validate_response
\* accepts; the decorated call returns it and its retry state is gone
SendAccepted ==
  /\ op = "records"
  /\ pc = "send"
  /\ \E s \in Statuses, b \in Bodies :
       /\ validate_response(s) = "ok"
       /\ last_status' = s
       /\ resp' = [status |-> s, body |-> b]
       /\ validation' = "ok"
  /\ tries' = 0
  /\ wait_n' = 0
  /\ wait_value' = 0
  /\ seconds' = 0
  /\ yield_idx' = 0
  /\ pc' = "yield"
  /\ UNCHANGED <<next_page_token, previous_token, finished, prepared, page_no, error>>
  /\ UNCHANGED finvars
  /\ UNCHANGED <<op, base_properties, fields, schema, inst, declared>>

\* backoff: time.sleep(seconds) returns, the next attempt follows
Sleep ==
  /\ pc = "sleep"
  /\ pc' = "send"
  /\ seconds' = 0
  /\ last_status' = 0
  /\ validation' = "none"
  /\ UNCHANGED <<next_page_token, previous_token, finished, prepared, resp, yield_idx,
                 page_no, tries, wait_n, wait_value, error>>
  /\ UNCHANGED finvars
  /\ UNCHANGED <<op, base_properties, fields, schema, inst, declared>>

\* lines 73-74: the next row of the page is yielded
Yield ==
  /\ pc = "yield"
  /\ yield_idx < resp.body.rows
  /\ yield_idx' = yield_idx + 1
  /\ UNCHANGED <<pc, next_page_token, previous_token, finished, prepared, resp,
                 page_no, tries, wait_n, wait_value, seconds, last_status, validation, error>>
  /\ UNCHANGED finvars
  /\ UNCHANGED <<op, base_properties, fields, schema, inst, declared>>

\* the for loop, were it left before the last row
rows_exhausted_early == TRUE

\* lines 75-77: the for loop over the rows of the response has run out
rows_exhausted == yield_idx = resp.body.rows

\* lines 75-84: the rows are exhausted, the token advances
Advance ==
  /\ pc = "yield"
  /\ rows_exhausted
  /\ previous_token' = next_page_token
  /\ next_page_token' = get_next_page_token(resp.body)
  /\ IF loop_detected(next_page_token', previous_token')
     THEN /\ pc' = "raised"
          /\ error' = "RuntimeError"
          /\ finished' = finished
     ELSE /\ finished' = (next_page_token' = NoToken)
          /\ pc' = IF finished' THEN "done" ELSE "prepare"
          /\ error' = error
  /\ UNCHANGED <<prepared, resp, yield_idx, page_no, tries, wait_n,
                 wait_value, seconds, last_status, validation>>
  /\ UNCHANGED finvars
  /\ UNCHANGED <<op, base_properties, fields, schema, inst, declared>>

\* cached_property, were the instance's cache never looked at
schema_cached_never == FALSE

\* line 154, cached_property: the instance holds a schema already
schema_cached == schema[inst] # PyNone

\* lines 154-160: the schema is asked for and is not cached: the decorated
\* request_schema starts
SchemaAccess ==
  /\ pc \in {"schema", "cached"}
  /\ ~schema_cached
  /\ tries' = 0
  /\ wait_n' = 0
  /\ wait_value' = 0
  /\ seconds' = 0
  /\ last_status' = 0
  /\ validation' = "none"
  /\ fields' = <<>>
  /\ pc' = "send"
  /\ UNCHANGED <<op, base_properties, schema, inst, declared, next_page_token,
                 previous_token, finished, prepared, resp, yield_idx, page_no, error>>
  /\ UNCHANGED finvars

\* cached_property: the schema is asked for again and is returned as cached
SchemaCached ==
  /\ pc \in {"schema", "cached"}
  /\ schema_cached
  /\ pc' = "cached"
  /\ UNCHANGED <<op, base_properties, fields, schema, inst, declared, next_page_token,
                 previous_token, finished, prepared, resp, yield_idx, page_no, tries,
                 wait_n, wait_value, seconds, last_status, validation, error>>
  /\ UNCHANGED finvars

\* one attempt of the decorated request_schema (lines 149-152): a response,
\* which validate_response accepts
SchemaAccepted ==
  /\ op = "schema"
  /\ pc = "send"
  /\ \E s \in Statuses :
       /\ validate_response(s) = "ok"
       /\ last_status' = s
       /\ validation' = "ok"
  /\ tries' = 0
  /\ wait_n' = 0
  /\ wait_value' = 0
  /\ seconds' = 0
  /\ pc' = "build"
  /\ UNCHANGED <<op, base_properties, fields, schema, inst, declared, next_page_token,
                 previous_token, finished, prepared, resp, yield_idx, page_no, error>>
  /\ UNCHANGED finvars

\* lines 156, 161-168: the body is parsed, the properties are appended to the
\* list base_properties names, and the schema is cached in the instance
SchemaBuild ==
  /\ pc = "build"
  /\ \E fs \in FieldLists : fields' = fs
  /\ base_properties' = base_properties \o discovered(fields')
  /\ schema' = [schema EXCEPT ![inst] = to_dict(base_properties')]
  /\ last_status' = 0
  /\ validation' = "none"
  /\ pc' = "schema"
  /\ UNCHANGED <<op, inst, declared, next_page_token, previous_token, finished, prepared,
                 resp, yield_idx, page_no, tries, wait_n, wait_value, seconds, error>>
  /\ UNCHANGED finvars

\* line 25: a second instance of the class is made; its cache is empty and
\* base_properties is the one list of the class
NewInstance ==
  /\ pc \in {"schema", "cached"}
  /\ inst = "first"
  /\ schema["first"] # PyNone
  /\ inst' = "second"
  /\ pc' = "schema"
  /\ UNCHANGED <<op, base_properties, fields, schema, declared, next_page_token,
                 previous_token, finished, prepared, resp, yield_idx, page_no, tries,
                 wait_n, wait_value, seconds, last_status, validation, error>>
  /\ UNCHANGED finvars

NextReq ==
  \/ SchemaAccess
  \/ SchemaCached
  \/ SchemaAccepted
  \/ SchemaBuild
  \/ NewInstance
  \/ Prepare
  \/ SendRaises
  \/ SendRejected
  \/ SendAccepted
  \/ Sleep
  \/ Yield
  \/ Advance



\* =================================================================
\* finalize_state_progress_markers
\* =================================================================
\* largest replication-key value (0 is the falsy value of Python)
MaxVal == 2
\* partition contexts a stream may declare: 1..MaxCtx
MaxCtx == 2
\* top-level calls of finalize_state_progress_markers in one behaviour
MaxCalls == 2

Has(d, k) == k \in DOMAIN d

\* dict.pop(k, None) and d[k] = v
Pop(d, k) == [x \in (DOMAIN d) \ {k} |-> d[x]]

Put(d, k, v) == [x \in (DOMAIN d) \cup {k} |-> IF x = k THEN v ELSE d[x]]

\* the stream tree the tap declares
Streams == {"parent", "childA", "childB", "grand"}

child_streams(s) ==
  CASE s = "parent" -> <<"childA", "childB">>
    [] s = "childA" -> <<"grand">>
    [] OTHER -> <<>>

\* the inner function, were the signpost read from the progress markers
finalize_inner_marker_signpost(s) ==
  LET s1 == Pop(Pop(s, "replication_key_signpost"), "starting_replication_value")
      s2 == IF Has(s1, "progress_markers") /\ Has(s1["progress_markers"], "replication_key")
            THEN LET pm == s1["progress_markers"]
                     signpost_value ==
                       IF Has(pm, "replication_key_signpost")
                       THEN pm["replication_key_signpost"] ELSE Absent
                     new_rk_value == pm["replication_key_value"]
                     clamped == IF Truthy(signpost_value) /\ new_rk_value > signpost_value
                                THEN signpost_value ELSE new_rk_value
                 IN Put(Put(s1, "replication_key", pm["replication_key"]),
                        "replication_key_value", clamped)
            ELSE s1
  IN Pop(s2, "progress_markers")

\* the inner function, were the promoted value never compared to the signpost
finalize_inner_no_clamp(s) ==
  LET s1 == Pop(Pop(s, "replication_key_signpost"), "starting_replication_value")
      s2 == IF Has(s1, "progress_markers") /\ Has(s1["progress_markers"], "replication_key")
            THEN LET pm == s1["progress_markers"]
                 IN Put(Put(s1, "replication_key", pm["replication_key"]),
                        "replication_key_value", pm["replication_key_value"])
            ELSE s1
  IN Pop(s2, "progress_markers")

\* the inner function, were progress_markers left in the state
finalize_inner_keep_markers(s) ==
  LET signpost_value ==
        IF Has(s, "replication_key_signpost") THEN s["replication_key_signpost"] ELSE Absent
      s1 == Pop(Pop(s, "replication_key_signpost"), "starting_replication_value")
  IN IF Has(s1, "progress_markers") /\ Has(s1["progress_markers"], "replication_key")
     THEN LET pm == s1["progress_markers"]
              new_rk_value == pm["replication_key_value"]
              clamped == IF Truthy(signpost_value) /\ new_rk_value > signpost_value
                         THEN signpost_value ELSE new_rk_value
          IN Put(Put(Pop(s1, "progress_markers"), "replication_key", pm["replication_key"]),
                 "replication_key_value", clamped)
     ELSE s1

\* lines 172-193: the state the inner function leaves in the dict it is given
finalize_inner(s) ==
  LET signpost_value ==
        IF Has(s, "replication_key_signpost") THEN s["replication_key_signpost"] ELSE Absent
      s1 == Pop(Pop(s, "replication_key_signpost"), "starting_replication_value")
      s2 == IF Has(s1, "progress_markers") /\ Has(s1["progress_markers"], "replication_key")
            THEN LET pm == s1["progress_markers"]
                     new_rk_value == pm["replication_key_value"]
                     clamped == IF Truthy(signpost_value) /\ new_rk_value > signpost_value
                                THEN signpost_value ELSE new_rk_value
                 IN Put(Put(s1, "replication_key", pm["replication_key"]),
                        "replication_key_value", clamped)
            ELSE s1
  IN Pop(s2, "progress_markers")

\* line 195: `state is None or state == {}`
whole_stream_mode(state) == state = PyNone \/ state = EmptyDict

\* line 212: `self.partitions or [{}]`; 0 stands for the empty context
contexts_of(s) ==
  IF partitions[s].contexts = <<>> THEN <<0>> ELSE partitions[s].contexts

\* lines 213-215: `context or None`, then _get_state_partition_context, which
\* keeps the keys of the context named by state_partitioning_keys (all of
\* them when it is None); 0 stands for a falsy result
get_state_partition_context(s, context) ==
  IF context = 0 \/ partitions[s].keys = "empty" THEN 0 ELSE context

\* line 218: index of the first entry of the list with that context, 0 if none
find_partition(list, ctx) ==
  IF \E i \in 1..Len(list) : list[i]["context"] = ctx
  THEN CHOOSE i \in 1..Len(list) :
         /\ list[i]["context"] = ctx
         /\ \A j \in 1..(i - 1) : list[j]["context"] # ctx
  ELSE 0

RemoveAt(list, i) == [j \in 1..(Len(list) - 1) |-> IF j < i THEN list[j] ELSE list[j + 1]]

Top == stack[Len(stack)]

SetTop(f) == [stack EXCEPT ![Len(stack)] = f]

\* the stream's bookmark inside tap_state
stream_state_of(s) == tap_state["bookmarks"][s]

WithStreamState(s, v) ==
  [tap_state EXCEPT !["bookmarks"] = [@ EXCEPT ![s] = v]]

\* ------------------------------------------------ the states a call starts in
RK == "updated_at"

\* values a replication key, a signpost or a starting value may hold
Vals == 0..MaxVal

Opt(present, d) == IF present THEN d ELSE EmptyDict

\* progress_markers as the sync leaves them: the key and its value together
ProgressMarkers ==
  { Opt(v # Absent, [replication_key |-> RK, replication_key_value |-> v])
      @@ Opt(sp # Absent, [replication_key_signpost |-> sp])
      @@ Opt(note, [Note |-> "note"]) :
    v \in {Absent} \cup Vals, sp \in {Absent} \cup 1..MaxVal, note \in BOOLEAN }

\* the stream or partition states a caller may pass as `state`; a signpost,
\* where there is one, is a truthy value (a falsy one is never written)
ExplicitStates ==
  { Opt(sp # Absent, [replication_key_signpost |-> sp])
      @@ Opt(st, [starting_replication_value |-> 1])
      @@ Opt(pm # PyNone, [progress_markers |-> pm])
      @@ Opt(dur, [replication_key |-> RK, replication_key_value |-> 1]) :
    sp \in {Absent} \cup 1..MaxVal, st \in BOOLEAN,
    pm \in {PyNone} \cup ProgressMarkers, dur \in BOOLEAN }

\* a state mid-sync, and the same state once finalized
Marked == [progress_markers |-> [replication_key |-> RK, replication_key_value |-> 2],
           replication_key_signpost |-> 1]

Promoted == [replication_key |-> RK, replication_key_value |-> 1]

BaseStates == {EmptyDict, Marked, Promoted}

Contexts == 1..MaxCtx

\* partition lists of a bookmark: at most two entries, no context twice
PartitionLists ==
  {<<>>}
    \cup { <<Put(e, "context", c)>> : e \in {Marked, Promoted}, c \in Contexts }
    \cup { <<Put(e, "context", p[1]), Put(e, "context", p[2])>> :
           e \in {Marked, Promoted},
           p \in {q \in Contexts \X Contexts : q[1] # q[2]} }

ParentStates ==
  BaseStates \cup { Put(b, "partitions", l) : b \in BaseStates, l \in PartitionLists }

ChildState(cfg) ==
  IF cfg.contexts = <<>> \/ cfg.keys = "empty" THEN Marked
  ELSE [partitions |-> <<Put(Marked, "context", 1)>>]

Unpartitioned == [contexts |-> <<>>, keys |-> "None"]

PartitionConfigs ==
  { [parent |-> [contexts |-> [i \in 1..n |-> i], keys |-> "None"],
     childA |-> a, childB |-> b, grand |-> g] :
    n \in 0..MaxCtx,
    a \in {Unpartitioned, [contexts |-> <<1>>, keys |-> "None"]},
    b \in {Unpartitioned, [contexts |-> <<1>>, keys |-> "empty"]},
    g \in {Unpartitioned, [contexts |-> <<1>>, keys |-> "None"]} }

AllUnpartitioned == [s \in Streams |-> Unpartitioned]

Bookmarks(cfg) ==
  { Opt(p # PyNone, [parent |-> p])
      @@ Opt(a, [childA |-> ChildState(cfg["childA"])])
      @@ Opt(b, [childB |-> ChildState(cfg["childB"])])
      @@ Opt(g, [grand |-> ChildState(cfg["grand"])]) :
    p \in {PyNone} \cup ParentStates, a \in BOOLEAN, b \in BOOLEAN, g \in BOOLEAN }

\* no request loop is running
ReqIdle ==
  /\ op = "off"
  /\ base_properties = <<>>
  /\ fields = <<>>
  /\ schema = NoSchemas
  /\ inst = "first"
  /\ declared = <<>>
  /\ pc = "off"
  /\ next_page_token = NoToken
  /\ previous_token = NoToken
  /\ finished = FALSE
  /\ prepared = NoParams
  /\ resp = NoResponse
  /\ yield_idx = 0
  /\ page_no = 0
  /\ tries = 0
  /\ wait_n = 0
  /\ wait_value = 0
  /\ seconds = 0
  /\ last_status = 0
  /\ validation = "none"
  /\ error = "none"

FinStart ==
  /\ stack = <<>>
  /\ fin_error = "none"
  /\ calls = 0
  /\ writing = {}
  /\ returned = {}
  /\ snap_tap = PyNone
  /\ snap_arg = PyNone
  /\ state_in = state_arg
  /\ ReqIdle

\* whole-stream mode: the caller passes no state
InitWholeStream ==
  /\ state_arg = PyNone
  /\ partitions \in PartitionConfigs
  /\ tap_state \in {PyNone, EmptyDict} \cup { [bookmarks |-> b] : b \in Bookmarks(partitions) }
  /\ FinStart

\* explicit-state mode: the caller passes a state of its own
InitExplicit ==
  /\ state_arg \in ExplicitStates
  /\ partitions = AllUnpartitioned
  /\ tap_state \in {PyNone, EmptyDict, [bookmarks |-> [parent |-> Marked]]}
  /\ FinStart

InitFin == InitWholeStream \/ InitExplicit

\* ------------------------------------------------------------- the calls
Snapshot(tap, arg) ==
  IF calls = 0 THEN snap_tap' = tap /\ snap_arg' = arg
  ELSE UNCHANGED <<snap_tap, snap_arg>>

\* line 228: a non-empty state is finalized in place
CallExplicit ==
  /\ stack = <<>>
  /\ fin_error = "none"
  /\ calls < MaxCalls
  /\ ~whole_stream_mode(state_arg)
  /\ state_arg' = finalize_inner(state_arg)
  /\ calls' = calls + 1
  /\ Snapshot(tap_state, state_arg')
  /\ UNCHANGED <<tap_state, state_in, partitions, stack, fin_error, writing, returned>>
  /\ UNCHANGED reqvars

\* line 195: no state, or an empty one: the whole stream is finalized
CallWholeStream ==
  /\ stack = <<>>
  /\ fin_error = "none"
  /\ calls < MaxCalls
  /\ whole_stream_mode(state_arg)
  /\ stack' = <<[stream |-> "parent", phase |-> "children", i |-> 1]>>
  /\ writing' = {}
  /\ returned' = {}
  /\ UNCHANGED <<tap_state, state_arg, state_in, partitions, fin_error, calls, snap_tap, snap_arg>>
  /\ UNCHANGED reqvars

\* lines 196-197: the next child stream is finalized
CallChild ==
  /\ stack # <<>>
  /\ Top.phase = "children"
  /\ Top.i <= Len(child_streams(Top.stream))
  /\ stack' = Append(SetTop([Top EXCEPT !.i = @ + 1]),
                     [stream |-> child_streams(Top.stream)[Top.i],
                      phase |-> "children", i |-> 1])
  /\ UNCHANGED <<tap_state, state_arg, state_in, partitions, fin_error, calls, writing, returned,
                 snap_tap, snap_arg>>
  /\ UNCHANGED reqvars

\* the stream's own part, were it not to wait for the loop over the children
ChildrenDone_not_awaited ==
  /\ stack # <<>>
  /\ Top.phase = "children"

\* line 196: the loop over the child streams is over
ChildrenDone ==
  /\ stack # <<>>
  /\ Top.phase = "children"
  /\ Top.i > Len(child_streams(Top.stream))

\* the test of line 199, were it never to find the state missing
state_missing_never == FALSE

\* line 199: `if self.tap_state is None`
state_missing == tap_state = PyNone

\* lines 199-200: no state dictionary to write to
RaiseMissingState ==
  /\ ChildrenDone
  /\ state_missing
  /\ fin_error' = "ValueError"
  /\ stack' = <<>>
  /\ UNCHANGED <<tap_state, state_arg, state_in, partitions, calls, writing, returned,
                 snap_tap, snap_arg>>
  /\ UNCHANGED reqvars

\* lines 202-209: the stream's bookmark and its partition list are made sure of
ensure_bookmark(tap, s) ==
  LET t1 == IF Has(tap, "bookmarks") THEN tap ELSE Put(tap, "bookmarks", EmptyDict)
      b1 == IF Has(t1["bookmarks"], s) THEN t1["bookmarks"]
            ELSE Put(t1["bookmarks"], s, EmptyDict)
      st == IF Has(b1[s], "partitions") THEN b1[s] ELSE Put(b1[s], "partitions", <<>>)
  IN Put(t1, "bookmarks", Put(b1, s, st))

OwnSetup ==
  /\ ChildrenDone
  /\ ~state_missing
  /\ tap_state' = ensure_bookmark(tap_state, Top.stream)
  /\ writing' = writing \cup {Top.stream}
  /\ stack' = SetTop([Top EXCEPT !.phase = "partitions", !.i = 1])
  /\ UNCHANGED <<state_arg, state_in, partitions, fin_error, calls, returned, snap_tap, snap_arg>>
  /\ UNCHANGED reqvars

AtContext ==
  /\ stack # <<>>
  /\ Top.phase = "partitions"
  /\ Top.i <= Len(contexts_of(Top.stream))

CurrentContext ==
  get_state_partition_context(Top.stream, contexts_of(Top.stream)[Top.i])

\* lines 219-221, 226: the entry found is taken out of the list, then finalized
FinalizeFoundPartition ==
  /\ AtContext
  /\ CurrentContext # 0
  /\ LET list == stream_state_of(Top.stream)["partitions"]
         index == find_partition(list, CurrentContext)
     IN /\ index # 0
        /\ tap_state' = WithStreamState(Top.stream,
                          Put(stream_state_of(Top.stream), "partitions", RemoveAt(list, index)))
  /\ stack' = SetTop([Top EXCEPT !.i = @ + 1])
  /\ UNCHANGED <<state_arg, state_in, partitions, fin_error, calls, writing, returned,
                 snap_tap, snap_arg>>
  /\ UNCHANGED reqvars

\* lines 222-223, 226: a new entry is appended; list.append returns None, and
\* the inner function raises on None.pop
FinalizeNewPartition ==
  /\ AtContext
  /\ CurrentContext # 0
  /\ LET list == stream_state_of(Top.stream)["partitions"]
     IN /\ find_partition(list, CurrentContext) = 0
        /\ tap_state' = WithStreamState(Top.stream,
                          Put(stream_state_of(Top.stream), "partitions",
                              Append(list, [context |-> CurrentContext])))
  /\ fin_error' = "AttributeError"
  /\ stack' = <<>>
  /\ UNCHANGED <<state_arg, state_in, partitions, calls, writing, returned, snap_tap, snap_arg>>
  /\ UNCHANGED reqvars

\* lines 224-226: no partition context: the stream's own state is finalized
FinalizeStreamState ==
  /\ AtContext
  /\ CurrentContext = 0
  /\ tap_state' = WithStreamState(Top.stream, finalize_inner(stream_state_of(Top.stream)))
  /\ stack' = SetTop([Top EXCEPT !.i = @ + 1])
  /\ UNCHANGED <<state_arg, state_in, partitions, fin_error, calls, writing, returned,
                 snap_tap, snap_arg>>
  /\ UNCHANGED reqvars

\* line 227: the call of a stream returns to its caller
Return ==
  /\ stack # <<>>
  /\ Top.phase = "partitions"
  /\ Top.i > Len(contexts_of(Top.stream))
  /\ returned' = returned \cup {Top.stream}
  /\ stack' = SubSeq(stack, 1, Len(stack) - 1)
  /\ IF Len(stack) = 1
     THEN calls' = calls + 1 /\ Snapshot(tap_state, state_arg)
     ELSE UNCHANGED <<calls, snap_tap, snap_arg>>
  /\ UNCHANGED <<tap_state, state_arg, state_in, partitions, fin_error, writing>>
  /\ UNCHANGED reqvars

NextFin ==
  \/ CallExplicit
  \/ CallWholeStream
  \/ CallChild
  \/ RaiseMissingState
  \/ OwnSetup
  \/ FinalizeFoundPartition
  \/ FinalizeNewPartition
  \/ FinalizeStreamState
  \/ Return

\* ------------------------------------------------------- the specifications
\* one invocation of request_records
SpecReq == InitReq /\ [][NextReq]_vars

\* the calls of finalize_state_progress_markers at the end of a sync
SpecFin == InitFin /\ [][NextFin]_vars

\* ------------------------------------------------- claims on the request loop
RetriableErrors ==
  {"RetriableAPIError", "ReadTimeout", "ConnectionError", "ProtocolError"}

\* C1: whenever the token computed from a page is a token (not None) equal to
\* the token that page was requested with, request_records has raised the
\* pagination-loop RuntimeError and nothing more is requested.
C1_LoopDetectionAborts ==
  (next_page_token # NoToken /\ next_page_token = previous_token)
    => (pc = "raised" /\ error = "RuntimeError" /\ ~ENABLED NextReq)

C1_Witness ==
  /\ pc = "raised"
  /\ error = "RuntimeError"
  /\ page_no = 2
  /\ next_page_token = previous_token
  /\ next_page_token.kind = "vidOffset"

\* C2: once the rows of a page whose body has has-more false or absent are
\* exhausted, the next token is None and request_records has ended with every
\* row of the page yielded; no further request follows.
C2_NoMoreEndsLoop ==
  (resp # NoResponse /\ resp.body.has_more \in {"false", "absent"})
    => \/ pc = "yield"
       \/ /\ pc = "done"
          /\ next_page_token = NoToken
          /\ finished
          /\ yield_idx = resp.body.rows
          /\ ~ENABLED NextReq

C2_Witness ==
  /\ pc = "done"
  /\ resp.body.has_more = "false"
  /\ resp.body.offset = 1
  /\ resp.body.rows = 2
  /\ yield_idx = 2
  /\ page_no = 2

\* C3: a request is attempted at most 8 times; a retriable error is surfaced
\* only by the 8th attempt, after which nothing more is sent; every new
\* request starts its attempt count afresh.
C3_AtMostEightAttempts ==
  /\ [](/\ tries <= 8
        /\ (pc = "sleep" => (tries >= 1 /\ tries < 8))
        /\ ((pc = "raised" /\ error \in RetriableErrors)
              => (tries = 8 /\ ~ENABLED NextReq)))
  /\ [][/\ ((pc \in {"prepare", "schema"} /\ pc' = "send") => tries' = 0)
        /\ ((pc = "send" /\ pc' \in {"sleep", "raised"}) => tries' = tries + 1)]_reqvars

C3_Witness ==
  /\ pc = "raised"
  /\ error = "RetriableAPIError"
  /\ last_status = 429
  /\ tries = 8
  /\ page_no = 2

\* C4: a 4xx status other than 401 and 429 ends request_records with the
\* fatal client error at once: no retry and no further request.
C4_ClientErrorNotRetried ==
  (last_status \in 400..499 /\ last_status \notin {401, 429})
    => (pc = "raised" /\ error = "FatalAPIError" /\ ~ENABLED NextReq)

C4_Witness ==
  /\ pc = "raised"
  /\ error = "FatalAPIError"
  /\ last_status = 404
  /\ tries = 1

\* C5: validate_response raises nothing for 2xx, the retriable error for 401,
\* 429 and 500..599, and the fatal client error for every other 400..499.
C5_StatusClassification ==
  /\ (last_status \in 200..299 => validation = "ok")
  /\ (last_status \in ({401, 429} \cup 500..599) => validation = "RetriableAPIError")
  /\ ((last_status \in 400..499 /\ last_status \notin {401, 429})
        => validation = "FatalAPIError")

C5_Witness ==
  /\ last_status = 429
  /\ validation = "RetriableAPIError"
  /\ pc = "sleep"

\* C10 as stated: the wait before retry n+1 is 3 times the wait before retry n.
C10_WaitTriples ==
  [][(pc = "send" /\ pc' = "sleep" /\ tries >= 1) => wait_value' = 3 * wait_value]_reqvars

\* C10 amended: the backoff value before the n-th retry of a request is
\* 3 * 2^(n-1), so it doubles from one retry to the next, and the seconds
\* slept are drawn from 0 up to that value (full jitter).
C10_WaitDoubles ==
  [][(pc = "send" /\ pc' = "sleep")
       => /\ wait_value' = 3 * 2 ^ tries
          /\ (tries >= 1 => wait_value' = 2 * wait_value)
          /\ seconds' \in 0..wait_value']_reqvars

C10_Witness ==
  /\ pc = "sleep"
  /\ tries = 3
  /\ wait_value = 12
  /\ seconds = 7

\* the rows of the last response are exhausted and its token was computed
Advanced ==
  /\ resp # NoResponse
  /\ pc \in {"prepare", "done", "raised"}

\* C11 as stated: the token computed from a body is None only when has-more is
\* false or absent; a body with has-more true yields a token and never ends
\* the loop.
C11_HasMoreAlwaysContinues ==
  (Advanced /\ resp.body.has_more = "true")
    => /\ next_page_token # NoToken
       /\ pc # "done"

\* C11 amended: the token computed from a body is None exactly when has-more
\* is false or absent, or has-more is true and neither offset nor vid-offset
\* holds a truthy value; the loop ends exactly when the token is None.
C11_NoneWithoutOffsets ==
  Advanced
    => /\ (next_page_token = NoToken)
            <=> \/ resp.body.has_more # "true"
                \/ ~Truthy(resp.body.offset) /\ ~Truthy(resp.body.vid_offset)
       /\ (pc = "done") <=> (next_page_token = NoToken)

C11_Witness ==
  /\ pc = "done"
  /\ resp.body.has_more = "true"
  /\ resp.body.offset = 0
  /\ resp.body.vid_offset = Absent
  /\ resp.body.rows = 1
  /\ yield_idx = 1
  /\ next_page_token = NoToken

\* C12: every request carries count = 100; the first one carries neither
\* offset nor vidOffset; a later one carries the token of the previous
\* response and nothing else: offset when that response had a truthy offset,
\* otherwise vidOffset with its vid-offset, never both; a retry re-sends the
\* same params.
C12_RequestParams ==
  [][/\ (pc = "prepare" /\ pc' = "send")
          => /\ prepared'.count = 100
             /\ page_no = 0
                  => prepared'.offset = Absent /\ prepared'.vidOffset = Absent
             /\ page_no >= 1
                  => IF Truthy(resp.body.offset)
                     THEN /\ prepared'.offset = resp.body.offset
                          /\ prepared'.vidOffset = Absent
                     ELSE /\ prepared'.offset = Absent
                          /\ prepared'.vidOffset = resp.body.vid_offset
                          /\ Truthy(resp.body.vid_offset)
     /\ (op = "records" /\ pc \in {"send", "sleep"} /\ pc' \in {"send", "sleep", "yield"})
          => prepared' = prepared]_vars

C12_Witness ==
  /\ pc = "send"
  /\ tries = 1
  /\ page_no = 3
  /\ prepared = [count |-> 100, offset |-> Absent, vidOffset |-> 2]
  /\ previous_token = [kind |-> "offset", val |-> 1]

\* C18: the request loop is sequential: while rows of a response are still to
\* be yielded no request can be prepared or sent; rows are yielded one by one
\* in response order; the tokens change only once every row of the page was
\* yielded; the request of the next page starts only after that.
C18_SequentialPages ==
  /\ []((pc = "yield" /\ yield_idx < resp.body.rows)
          => ~ENABLED (Prepare \/ SendRaises \/ SendRejected \/ SendAccepted \/ Advance))
  /\ [][/\ yield_idx' # yield_idx
             => \/ pc = "yield" /\ yield_idx < resp.body.rows /\ yield_idx' = yield_idx + 1
                \/ pc = "send" /\ pc' = "yield" /\ yield_idx' = 0
        /\ (next_page_token' # next_page_token \/ previous_token' # previous_token)
             => pc = "yield" /\ yield_idx = resp.body.rows
        /\ (op = "records" /\ pc = "prepare" /\ pc' = "send" /\ page_no >= 1)
             => /\ yield_idx = resp.body.rows
                /\ next_page_token = get_next_page_token(resp.body)]_vars

C18_Witness ==
  /\ pc = "send"
  /\ page_no = 2
  /\ yield_idx = 2
  /\ tries = 0
  /\ next_page_token = [kind |-> "offset", val |-> 2]

\* C15 as stated: no jitter: the wait applied before a retry is the one value
\* the schedule gives for that retry.
C15_NoJitter ==
  pc = "sleep" => seconds = wait_value

\* C15 amended: the schedule is fixed, the value before retry n being
\* 3 * 2^(n-1), and the wait applied is any number of seconds from 0 up to
\* that value.
C15_JitterUpToSchedule ==
  pc = "sleep"
    => /\ tries >= 1
       /\ wait_value = 3 * 2 ^ (tries - 1)
       /\ seconds \in 0..wait_value

C15_Witness ==
  /\ pc = "sleep"
  /\ tries = 3
  /\ wait_value = 12
  /\ seconds = 5
  /\ last_status = 503

\* ------------------------------------------------------- claims on schema
\* the fixed table of the semantic types
TypeTable(t) ==
  CASE t \in {"string", "enumeration", "phone_number", "date", "json",
              "object_coordinates", "number"} -> "StringType"
    [] t = "datetime" -> "DateTimeType"
    [] t = "bool" -> "BooleanType"
    [] OTHER -> "StringType"

NamesOf(props) == {props[i].name : i \in 1..Len(props)}

Live(f) == f.deleted # "true"

C19_ComputedOnce ==
  /\ []((op = "schema" /\ pc \in {"send", "sleep", "build"}) => schema[inst] = PyNone)
  /\ [][/\ \A i \in Instances : schema[i] # PyNone => schema'[i] = schema[i]
        /\ (schema[inst] # PyNone /\ inst' = inst)
             => /\ pc' = "cached"
                /\ tries' = tries
                /\ base_properties' = base_properties]_vars

C19_Witness ==
  /\ pc = "cached"
  /\ inst = "first"
  /\ schema["first"] = [a |-> "DateTimeType"]
  /\ schema["second"] = PyNone

\* C20: resolving a schema leaves base_properties as the class declares it,
\* and the schema an instance resolves is the one of the declared base fields
\* followed by the fields of its own metadata response.
C20_BasePropertiesUnchanged ==
  /\ base_properties = declared
  /\ (pc \in {"schema", "cached"} /\ schema[inst] # PyNone)
       => schema[inst] = to_dict(declared \o discovered(fields))

\* --------------------------------------------------- claims on finalization
\* the first call was given a non-empty state and has returned
ExplicitDone == calls >= 1 /\ ~whole_stream_mode(state_in)

MarkersOf(s) == s["progress_markers"]

\* the state passed held markers with a key, a value and a signpost below it
MarkerSignpostBelowValue ==
  /\ Has(state_in, "progress_markers")
  /\ Has(MarkersOf(state_in), "replication_key")
  /\ Has(MarkersOf(state_in), "replication_key_signpost")
  /\ MarkersOf(state_in)["replication_key_value"] > MarkersOf(state_in)["replication_key_signpost"]

\* C6 as stated: with replication_key k, replication_key_value v and
\* replication_key_signpost s in progress_markers and v > s, the finalized
\* state has replication_key k, replication_key_value s and no progress_markers.
C6_ClampedToMarkerSignpost ==
  (ExplicitDone /\ MarkerSignpostBelowValue)
    => /\ Has(state_arg, "replication_key")
       /\ state_arg["replication_key"] = MarkersOf(state_in)["replication_key"]
       /\ state_arg["replication_key_value"] = MarkersOf(state_in)["replication_key_signpost"]
       /\ ~Has(state_arg, "progress_markers")

\* C6 amended: a signpost held inside progress_markers does not clamp: with no
\* replication_key_signpost beside progress_markers, the finalized state has
\* replication_key k, replication_key_value v and no progress_markers.
C6_MarkerSignpostIgnored ==
  (ExplicitDone /\ MarkerSignpostBelowValue /\ ~Has(state_in, "replication_key_signpost"))
    => /\ Has(state_arg, "replication_key")
       /\ state_arg["replication_key"] = MarkersOf(state_in)["replication_key"]
       /\ state_arg["replication_key_value"] = MarkersOf(state_in)["replication_key_value"]
       /\ ~Has(state_arg, "progress_markers")

C6_Witness ==
  /\ calls = 1
  /\ state_in = [progress_markers |->
                   [replication_key |-> RK, replication_key_value |-> 2,
                    replication_key_signpost |-> 1]]
  /\ state_arg = [replication_key |-> RK, replication_key_value |-> 2]

Finalized(s) ==
  /\ ~Has(s, "progress_markers")
  /\ ~Has(s, "replication_key_signpost")
  /\ ~Has(s, "starting_replication_value")

\* the state passed held a signpost beside markers with a key and a value
SignpostBesideMarkers ==
  /\ Has(state_in, "replication_key_signpost")
  /\ Has(state_in, "progress_markers")
  /\ Has(MarkersOf(state_in), "replication_key")

Min(a, b) == IF a <= b THEN a ELSE b

\* C16: with replication_key_signpost at the top level of the state and
\* progress_markers holding replication_key k and replication_key_value v,
\* the finalized state has replication_key k and replication_key_value
\* min(v, signpost), which never exceeds the signpost.
C16_ClampedToSignpost ==
  (ExplicitDone /\ SignpostBesideMarkers)
    => /\ Has(state_arg, "replication_key")
       /\ state_arg["replication_key"] = MarkersOf(state_in)["replication_key"]
       /\ state_arg["replication_key_value"]
            = Min(MarkersOf(state_in)["replication_key_value"],
                  state_in["replication_key_signpost"])
       /\ state_arg["replication_key_value"] <= state_in["replication_key_signpost"]

C16_Witness ==
  /\ calls = 1
  /\ state_in = [replication_key_signpost |-> 1,
                 progress_markers |-> [replication_key |-> RK, replication_key_value |-> 2]]
  /\ state_arg = [replication_key |-> RK, replication_key_value |-> 1]

\* C17: once a non-empty state was finalized it holds none of
\* progress_markers, replication_key_signpost and starting_replication_value,
\* whether or not the markers held a replication key; where they held none,
\* nothing is promoted and every other key, a durable replication_key and
\* replication_key_value among them, is as it was passed.
C17_MarkersCleared ==
  ExplicitDone
    => /\ Finalized(state_arg)
       /\ ~(Has(state_in, "progress_markers") /\ Has(MarkersOf(state_in), "replication_key"))
            => state_arg = Pop(Pop(Pop(state_in, "progress_markers"),
                                   "replication_key_signpost"),
                               "starting_replication_value")

C17_Witness ==
  /\ calls = 1
  /\ state_in = [progress_markers |-> [Note |-> "note", replication_key_signpost |-> 2],
                 starting_replication_value |-> 1,
                 replication_key |-> RK, replication_key_value |-> 1]
  /\ state_arg = [replication_key |-> RK, replication_key_value |-> 1]

\* a whole-stream call on an existing state dictionary has ended
WholeStreamEnded ==
  /\ whole_stream_mode(state_in)
  /\ tap_state # PyNone
  /\ stack = <<>>
  /\ (calls >= 1 \/ fin_error # "none")

\* C7: after whole-stream finalization, nothing was raised and the bookmark
\* of every stream holds, for each partition context the stream declares, a
\* finalized entry with that context.
C7_PartitionEntriesKept ==
  WholeStreamEnded
    => /\ fin_error = "none"
       /\ \A s \in Streams :
            \A k \in 1..Len(partitions[s].contexts) :
              get_state_partition_context(s, partitions[s].contexts[k]) # 0
                => \E i \in 1..Len(stream_state_of(s)["partitions"]) :
                     /\ stream_state_of(s)["partitions"][i]["context"] = partitions[s].contexts[k]
                     /\ Finalized(stream_state_of(s)["partitions"][i])

\* C8, in whole-stream mode: once a first whole-stream call has returned, a
\* second one raises nothing and leaves the state dictionary (every stream's
\* replication_key, replication_key_value and partition entries) as the
\* first call left it.
C8_SecondCallNoOp ==
  (calls >= 1 /\ whole_stream_mode(state_in))
    => /\ fin_error = "none"
       /\ tap_state = snap_tap

\* C14: a whole-stream call made while tap_state is None writes no bookmark and
\* never returns: tap_state stays None, no stream reaches its bookmark, the
\* call can always go on, and the first stream whose children loop is over
\* raises ValueError, which ends the call.
C14_MissingStateRaises ==
  /\ []((tap_state = PyNone /\ whole_stream_mode(state_in))
          => /\ calls = 0
             /\ writing = {}
             /\ returned = {}
             /\ fin_error \in {"none", "ValueError"}
             /\ stack # <<>> => ENABLED (CallChild \/ RaiseMissingState))
  /\ [][(tap_state = PyNone /\ stack # <<>>)
          => /\ tap_state' = PyNone
             /\ writing' = {}
             /\ calls' = calls
             /\ ChildrenDone => (fin_error' = "ValueError" /\ stack' = <<>>)]_vars

C14_Witness ==
  /\ tap_state = PyNone
  /\ state_in = PyNone
  /\ state_arg = PyNone
  /\ fin_error = "ValueError"
  /\ stack = <<>>
  /\ calls = 0
  /\ partitions["parent"].contexts # <<>>

RECURSIVE Descendants(_)
Descendants(s) ==
  LET kids == {child_streams(s)[i] : i \in 1..Len(child_streams(s))}
  IN kids \cup UNION {Descendants(k) : k \in kids}

\* C9: a stream reaches its own bookmark only after the call of every stream
\* below it in the tree has returned.
C9_ParentAfterChildren ==
  \A s \in writing : Descendants(s) \subseteq returned

C9_Witness ==
  /\ "parent" \in writing
  /\ returned = {"childA", "childB", "grand"}
  /\ partitions["childB"].contexts # <<>>
  /\ stack # <<>>

====
